---- MODULE Spec2Model ----
(***************************************************************************)
(* OpenSearchUserDatabase (fastapi_users_db_opensearch/__init__.py): the   *)
(* adapter's six operations over the two indices "user" and                *)
(* "oauth_account".                                                        *)
(*                                                                         *)
(* The OpenSearch client is the environment.  Each index is modelled by    *)
(* two maps: the documents as written (what get/update/delete by id act    *)
(* on, these are realtime) and the documents as of the last refresh (what  *)
(* search and delete_by_query see).  A write with refresh="wait_for"       *)
(* returns after a refresh of its index; a write without it leaves the     *)
(* searchable view as it was until the index refreshes on its own.         *)
(***************************************************************************)
EXTENDS Integers, Sequences, FiniteSets, TLC

\* Bounds of the model: how many user ids and linked-login document ids exist.
NumUsers == 2
NumAccounts == 2

\* Bound of the model: how many calls run concurrently in SpecAsync.
NumTasks == 2

Tasks == 1..NumTasks
UserIds == 1..NumUsers
OAuthIds == 1..NumAccounts

\* Email addresses are sequences of characters; two differ only in case.
Emails == { <<"a", "@", "x">>, <<"A", "@", "x">>, <<"b", "@", "x">> }

\* (oauth_name, account_id) pairs a linked-login entry may carry.
OAuthKeys == { <<"google", "k1">>, <<"github", "k2">> }

\* str.lower() on one character and on a string.
LowerChar(c) == CASE c = "A" -> "a" [] c = "B" -> "b" [] c = "X" -> "x" [] OTHER -> c
Lower(s) == [i \in DOMAIN s |-> LowerChar(s[i])]

\* A missing document / a None result.
NoDoc == [absent |-> TRUE]
NoUser == [none |-> TRUE]

\* One entry of user.oauth_accounts, as the caller passes it.
Entries == { [id |-> j, oauth_name |-> k[1], account_id |-> k[2]] : j \in OAuthIds, k \in OAuthKeys }

\* The lists a record may carry: entry ids are distinct, in one order per set.
OAuthLists ==
  { s \in UNION { [1..n -> Entries] : n \in 0..NumAccounts } :
      \A i, j \in DOMAIN s : i < j => s[i].id < s[j].id }

\* user.dict(): has_oauth_accounts is `"oauth_accounts" in user_dict`.
Users ==
  { [id |-> i, email |-> e, has_oauth_accounts |-> h, oauth_accounts |-> l] :
      i \in UserIds, e \in Emails, h \in BOOLEAN, l \in OAuthLists } \
  { u \in [id : UserIds, email : Emails, has_oauth_accounts : {FALSE},
           oauth_accounts : OAuthLists] : u.oauth_accounts # <<>> }

VARIABLES userDocs, userSeen, oauthDocs, oauthSeen, last, everLinked, calls

vars == <<userDocs, userSeen, oauthDocs, oauthSeen, last, everLinked, calls>>

----------------------------------------------------------------------------
\* The client calls.

\* client.search(index="user", match email.keyword): ids of the hits.
SearchEmail(seen, email) ==
  { i \in UserIds : seen[i] # NoDoc /\ seen[i].email = email }

\* client.search(index="oauth_account", match user_id.keyword): ids of the hits.
SearchUserId(seen, uid) ==
  { j \in OAuthIds : seen[j] # NoDoc /\ seen[j].user_id = uid }

\* client.search(index="oauth_account", bool must oauth_name, account_id).
SearchOAuth(seen, oauth, account_id) ==
  { j \in OAuthIds : seen[j] # NoDoc /\ seen[j].oauth_name = oauth
                       /\ seen[j].account_id = account_id }

\* The bulk actions create and update build from user.oauth_accounts.
OAuthValues(user) ==
  [n \in DOMAIN user.oauth_accounts |->
     [_id |-> user.oauth_accounts[n].id,
      user_id |-> user.id,
      oauth_name |-> user.oauth_accounts[n].oauth_name,
      account_id |-> user.oauth_accounts[n].account_id]]

\* async_bulk(values): every action indexed under its _id.
RECURSIVE BulkIndex(_, _)
BulkIndex(docs, values) ==
  IF values = <<>> THEN docs
  ELSE LET v == Head(values)
       IN BulkIndex([docs EXCEPT ![v._id] =
                       [user_id |-> v.user_id, oauth_name |-> v.oauth_name,
                        account_id |-> v.account_id]],
                    Tail(values))

----------------------------------------------------------------------------
\* The read operations, as functions of the store.

\* _make_user that always attaches the list of hits, empty or not.
MakeUserWithList(id, source) ==
  LET hits == SearchUserId(oauthSeen, id)
  IN [id |-> id,
      email |-> source.email,
      has_oauth_accounts |-> TRUE,
      oauth_accounts |->
        { [id |-> j, user_id |-> oauthSeen[j].user_id,
           oauth_name |-> oauthSeen[j].oauth_name,
           account_id |-> oauthSeen[j].account_id] : j \in hits }]

\* _make_user that skips the linked-login lookup.
MakeUserBare(id, source) ==
  [id |-> id, email |-> source.email,
   has_oauth_accounts |-> FALSE, oauth_accounts |-> {}]

\* _make_user: attach the hits of the user_id search, if any.
MakeUser(id, source) ==
  LET hits == SearchUserId(oauthSeen, id)
  IN [id |-> id,
      email |-> source.email,
      has_oauth_accounts |-> hits # {},
      oauth_accounts |->
        { [id |-> j, user_id |-> oauthSeen[j].user_id,
           oauth_name |-> oauthSeen[j].oauth_name,
           account_id |-> oauthSeen[j].account_id] : j \in hits }]

\* get(id)
Get(id) ==
  IF userDocs[id] = NoDoc THEN NoUser ELSE MakeUser(id, userDocs[id])

\* get_by_email(email): hits[0] is any of the hits.
GetByEmail(email) ==
  LET hits == SearchEmail(userSeen, Lower(email))
  IN IF hits = {} THEN {NoUser}
     ELSE { MakeUser(i, userSeen[i]) : i \in hits }

\* get_by_oauth_account(oauth, account_id)
GetByOAuthAccount(oauth, account_id) ==
  LET hits == SearchOAuth(oauthSeen, oauth, account_id)
  IN IF hits = {} THEN {NoUser}
     ELSE { Get(oauthSeen[j].user_id) : j \in hits }

----------------------------------------------------------------------------
\* History for the properties: the last call that wrote or returned, and
\* what the store looked like to it when it started.
\*   vacant  no user document was stored under user.id
\*   pre     the searchable linked-login documents that referenced user.id
\*   stored  those of them still stored in the index
\*   dup     search saw, stored and refreshed, another user's document whose
\*           email equals user.email, letter case ignored
\*   reused  the call before was the delete of the user stored under user.id
Created(user) ==
  [op |-> "create", ok |-> TRUE, id |-> user.id, user |-> user,
   vacant |-> userDocs[user.id] = NoDoc,
   reused |-> last.op = "delete" /\ last.id = user.id,
   pre |-> SearchUserId(oauthSeen, user.id),
   stored |-> SearchUserId(oauthDocs, user.id),
   dup |-> \E i \in UserIds \ {user.id} :
             /\ userDocs[i] # NoDoc /\ userSeen[i] = userDocs[i]
             /\ Lower(userDocs[i].email) = Lower(user.email)]

\*   conflict  delete_by_query hit a document that was already deleted
Updated(user, ok) ==
  IF ok
  THEN [op |-> "update", ok |-> TRUE, id |-> user.id, user |-> user,
        conflict |-> user.has_oauth_accounts
                     /\ \E j \in SearchUserId(oauthSeen, user.id) : oauthDocs[j] # oauthSeen[j]]
  ELSE [op |-> "update", ok |-> FALSE, id |-> user.id]

\*   linked  the linked-login documents as they were stored
Deleted(user) ==
  [op |-> "delete", ok |-> TRUE, id |-> user.id, linked |-> oauthDocs]

\* A task that has not called anything yet.
Idle == [pc |-> "idle"]

NoCall == [op |-> "init", ok |-> FALSE]

Init ==
  /\ userDocs = [i \in UserIds |-> NoDoc]
  /\ userSeen = [i \in UserIds |-> NoDoc]
  /\ oauthDocs = [j \in OAuthIds |-> NoDoc]
  /\ oauthSeen = [j \in OAuthIds |-> NoDoc]
  /\ last = NoCall
  /\ everLinked = {}
  /\ calls = [t \in Tasks |-> Idle]

\* Does the call write linked-login documents: the bulk helper sends nothing
\* for an empty list.
WritesOAuth(user) == user.has_oauth_accounts /\ user.oauth_accounts # <<>>

\* The index call without create's `user_dict["email"].lower()`.
IndexUserAsGiven(docs, user) == [docs EXCEPT ![user.id] = [email |-> user.email]]

\* client.index(index="user", id, body, refresh="wait_for") of create.
IndexUser(docs, user) == [docs EXCEPT ![user.id] = [email |-> Lower(user.email)]]

\* create(user)
create(user) ==
  IF GetByEmail(Lower(user.email)) # {NoUser}
  THEN \* raise Exception: nothing was written
       UNCHANGED vars
  ELSE /\ userDocs' = IndexUser(userDocs, user)
       /\ userSeen' = userDocs'
       /\ IF WritesOAuth(user)
          THEN /\ oauthDocs' = BulkIndex(oauthDocs, OAuthValues(user))
               /\ oauthSeen' = oauthDocs'
               /\ everLinked' = everLinked \cup {user.id}
          ELSE UNCHANGED <<oauthDocs, oauthSeen, everLinked>>
       /\ last' = Created(user)
       /\ UNCHANGED calls

\* A delete_by_query that stops after its first hit.
DeleteByQueryOne(docs, seen, uid) ==
  [j \in OAuthIds |->
     IF j \in SearchUserId(seen, uid) /\ \A k \in SearchUserId(seen, uid) : j <= k
     THEN NoDoc ELSE docs[j]]

\* client.delete_by_query(match user_id.keyword) of update: the documents the
\* search sees are deleted.  A hit that is already gone from the index is a
\* version conflict.
DeleteByQuery(docs, seen, uid) ==
  [j \in OAuthIds |-> IF j \in SearchUserId(seen, uid) THEN NoDoc ELSE docs[j]]

Conflicts(docs, seen, uid) ==
  { j \in SearchUserId(seen, uid) : docs[j] # seen[j] }

\* client.update(index="user", id, body={"doc": user_dict}) of update.
UpdateUser(docs, user) == [docs EXCEPT ![user.id] = [email |-> user.email]]

\* update(user).  abort: delete_by_query met a version conflict and raised.
update(user, abort) ==
  LET deleted == IF user.has_oauth_accounts
                 THEN DeleteByQuery(oauthDocs, oauthSeen, user.id)
                 ELSE oauthDocs
      conflict == user.has_oauth_accounts
                  /\ Conflicts(oauthDocs, oauthSeen, user.id) # {}
  IN /\ abort => conflict
     /\ UNCHANGED calls
     /\ IF abort
        THEN \* ConflictError out of delete_by_query
             /\ oauthDocs' = deleted
             /\ last' = Updated(user, FALSE)
             /\ UNCHANGED <<userDocs, userSeen, oauthSeen, everLinked>>
        ELSE /\ IF WritesOAuth(user)
                THEN /\ oauthDocs' = BulkIndex(deleted, OAuthValues(user))
                     /\ oauthSeen' = oauthDocs'
                     /\ everLinked' = everLinked \cup {user.id}
                ELSE /\ oauthDocs' = deleted
                     /\ UNCHANGED <<oauthSeen, everLinked>>
             /\ IF userDocs[user.id] = NoDoc
                THEN \* NotFoundError out of client.update
                     /\ last' = Updated(user, FALSE)
                     /\ UNCHANGED <<userDocs, userSeen>>
                ELSE /\ userDocs' = UpdateUser(userDocs, user)
                     /\ last' = Updated(user, TRUE)
                     /\ UNCHANGED userSeen

\* A delete that also removes the linked-login documents of the user.
deleteCascading(user) ==
  IF userDocs[user.id] = NoDoc
  THEN UNCHANGED vars
  ELSE /\ userDocs' = [userDocs EXCEPT ![user.id] = NoDoc]
       /\ oauthDocs' = [j \in OAuthIds |->
                          IF j \in SearchUserId(oauthDocs, user.id) THEN NoDoc ELSE oauthDocs[j]]
       /\ last' = Deleted(user)
       /\ UNCHANGED <<userSeen, oauthSeen, everLinked, calls>>

\* delete(user)
delete(user) ==
  IF userDocs[user.id] = NoDoc
  THEN \* NotFoundError out of client.delete: nothing was written
       UNCHANGED vars
  ELSE /\ userDocs' = [userDocs EXCEPT ![user.id] = NoDoc]
       /\ last' = Deleted(user)
       /\ UNCHANGED <<userSeen, oauthDocs, oauthSeen, everLinked, calls>>

Create == \E user \in Users : create(user)

Update == \E user \in Users, abort \in BOOLEAN : update(user, abort)

\* delete reads only user.id: the records without entries stand for the rest.
DeleteArgs == { u \in Users : ~u.has_oauth_accounts }

Delete == \E user \in DeleteArgs : delete(user)

\* The "user" index refreshes on its own (index.refresh_interval).
RefreshUser ==
  /\ userSeen # userDocs
  /\ userSeen' = userDocs
  /\ UNCHANGED <<userDocs, oauthDocs, oauthSeen, last, everLinked, calls>>

\* The "oauth_account" index refreshes on its own.
RefreshOAuth ==
  /\ oauthSeen # oauthDocs
  /\ oauthSeen' = oauthDocs
  /\ UNCHANGED <<userDocs, userSeen, oauthDocs, last, everLinked, calls>>

Next == Create \/ Update \/ Delete \/ RefreshUser \/ RefreshOAuth

Spec == Init /\ [][Next]_vars

----------------------------------------------------------------------------
\* The same operations as coroutines: one step per awaited client call, so
\* that the calls of different tasks interleave at the awaits.

\* The records the concurrent callers pass.
AsyncUsers ==
  { u \in Users : \A n \in DOMAIN u.oauth_accounts : u.oauth_accounts[n].oauth_name = "google" }

\* Where a call first awaits.  had: linked-login documents referenced user.id
\* when the call started.
FirstAwait(op, user) ==
  CASE op = "create" -> "get_by_email"
    [] op = "update" -> IF user.has_oauth_accounts THEN "delete_by_query" ELSE "update"
    [] OTHER -> "delete"

start(t, op, user) ==
  /\ calls[t] = Idle
  /\ \A s \in Tasks : s < t => calls[s] # Idle
  /\ calls' = [calls EXCEPT ![t] =
                 [pc |-> FirstAwait(op, user), op |-> op, user |-> user,
                  had |-> SearchUserId(oauthDocs, user.id) # {}]]
  /\ UNCHANGED <<userDocs, userSeen, oauthDocs, oauthSeen, last, everLinked>>

At(t, op, pc) == calls[t] # Idle /\ calls[t].op = op /\ calls[t].pc = pc

Goto(t, pc) == calls' = [calls EXCEPT ![t].pc = pc]

\* create: `if await self.get_by_email(user.email.lower()): raise Exception`
createCheck(t) ==
  /\ At(t, "create", "get_by_email")
  /\ IF GetByEmail(Lower(calls[t].user.email)) # {NoUser}
     THEN Goto(t, "raised")
     ELSE Goto(t, "index")
  /\ UNCHANGED <<userDocs, userSeen, oauthDocs, oauthSeen, last, everLinked>>

\* An index step that looks the email up again and gives up if it is taken.
createIndexIfFree(t) ==
  /\ At(t, "create", "index")
  /\ IF GetByEmail(Lower(calls[t].user.email)) # {NoUser}
     THEN Goto(t, "raised") /\ UNCHANGED <<userDocs, userSeen>>
     ELSE /\ userDocs' = IndexUser(userDocs, calls[t].user)
          /\ userSeen' = userDocs'
          /\ Goto(t, IF WritesOAuth(calls[t].user) THEN "bulk" ELSE "done")
  /\ UNCHANGED <<oauthDocs, oauthSeen, last, everLinked>>

\* create: `await self.client.index(..., refresh="wait_for")`
createIndex(t) ==
  /\ At(t, "create", "index")
  /\ userDocs' = IndexUser(userDocs, calls[t].user)
  /\ userSeen' = userDocs'
  /\ Goto(t, IF WritesOAuth(calls[t].user) THEN "bulk" ELSE "done")
  /\ UNCHANGED <<oauthDocs, oauthSeen, last, everLinked>>

\* create: `await async_bulk(..., refresh="wait_for")`
createBulk(t) ==
  /\ At(t, "create", "bulk")
  /\ oauthDocs' = BulkIndex(oauthDocs, OAuthValues(calls[t].user))
  /\ oauthSeen' = oauthDocs'
  /\ Goto(t, "done")
  /\ UNCHANGED <<userDocs, userSeen, last, everLinked>>

\* update: `await self.client.delete_by_query(...)`
updateDeleteByQuery(t, abort) ==
  /\ At(t, "update", "delete_by_query")
  /\ abort => Conflicts(oauthDocs, oauthSeen, calls[t].user.id) # {}
  /\ oauthDocs' = DeleteByQuery(oauthDocs, oauthSeen, calls[t].user.id)
  /\ Goto(t, IF abort THEN "raised"
             ELSE IF WritesOAuth(calls[t].user) THEN "bulk" ELSE "update")
  /\ UNCHANGED <<userDocs, userSeen, oauthSeen, last, everLinked>>

\* update: `await async_bulk(..., refresh="wait_for")`
updateBulk(t) ==
  /\ At(t, "update", "bulk")
  /\ oauthDocs' = BulkIndex(oauthDocs, OAuthValues(calls[t].user))
  /\ oauthSeen' = oauthDocs'
  /\ Goto(t, "update")
  /\ UNCHANGED <<userDocs, userSeen, last, everLinked>>

\* update: `await self.client.update(...)`
updateDoc(t) ==
  /\ At(t, "update", "update")
  /\ IF userDocs[calls[t].user.id] = NoDoc
     THEN Goto(t, "raised") /\ UNCHANGED userDocs
     ELSE Goto(t, "done") /\ userDocs' = UpdateUser(userDocs, calls[t].user)
  /\ UNCHANGED <<userSeen, oauthDocs, oauthSeen, last, everLinked>>

\* delete: `await self.client.delete(...)`
deleteDoc(t) ==
  /\ At(t, "delete", "delete")
  /\ IF userDocs[calls[t].user.id] = NoDoc
     THEN Goto(t, "raised") /\ UNCHANGED userDocs
     ELSE Goto(t, "done") /\ userDocs' = [userDocs EXCEPT ![calls[t].user.id] = NoDoc]
  /\ UNCHANGED <<userSeen, oauthDocs, oauthSeen, last, everLinked>>

Start == \E t \in Tasks, op \in {"create", "update", "delete"}, user \in AsyncUsers : start(t, op, user)

CreateCheck == \E t \in Tasks : createCheck(t)

CreateIndex == \E t \in Tasks : createIndex(t)

CreateBulk == \E t \in Tasks : createBulk(t)

UpdateDeleteByQuery == \E t \in Tasks, abort \in BOOLEAN : updateDeleteByQuery(t, abort)

UpdateBulk == \E t \in Tasks : updateBulk(t)

UpdateDoc == \E t \in Tasks : updateDoc(t)

DeleteDoc == \E t \in Tasks : deleteDoc(t)

NextAsync ==
  \/ Start \/ CreateCheck \/ CreateIndex \/ CreateBulk
  \/ UpdateDeleteByQuery \/ UpdateBulk \/ UpdateDoc \/ DeleteDoc
  \/ RefreshUser \/ RefreshOAuth

SpecAsync == Init /\ [][NextAsync]_vars

----------------------------------------------------------------------------
\* Vocabulary of the properties.  A property about "right after a call" is
\* stated of the states in which that call is the last one.

\* The entries a record carries, in the shape get returns them.
EntrySet(user) ==
  { [id |-> user.oauth_accounts[n].id, user_id |-> user.id,
     oauth_name |-> user.oauth_accounts[n].oauth_name,
     account_id |-> user.oauth_accounts[n].account_id] :
      n \in DOMAIN user.oauth_accounts }

\* What get(user.id) should return for a record stored as the caller gave it.
Expected(user) ==
  [id |-> user.id, email |-> Lower(user.email),
   has_oauth_accounts |-> EntrySet(user) # {},
   oauth_accounts |-> EntrySet(user)]

\* Some stored user document holds this email, letter case ignored.
Stored(email) ==
  \E i \in UserIds : userDocs[i] # NoDoc /\ Lower(userDocs[i].email) = Lower(email)

\* The ids of the entries get(id) returns.
LinkedIds(id) == { e.id : e \in Get(id).oauth_accounts }

AfterCreate == last.op = "create" /\ last.ok

AfterUpdate == last.op = "update" /\ last.ok

AfterDelete == last.op = "delete" /\ last.ok

----------------------------------------------------------------------------
\* C1, as claimed: after any successful create(U), get(U.id) returns U's
\* fields with the email lowercased and exactly the entries U carried.
C1_RoundTripAnyState ==
  AfterCreate => Get(last.id) = Expected(last.user)

\* C1, amended: after a successful create(U) that found no searchable
\* linked-login document referencing U.id, get(U.id) returns U's fields with
\* the email lowercased and exactly the entries U carried.
C1_RoundTripFreshId ==
  AfterCreate /\ last.pre = {} => Get(last.id) = Expected(last.user)

\* A create of a record with a mixed-case email and as many entries as there
\* are entry ids returned, on an id nothing referenced, and get returns them.
C1_Witness ==
  /\ AfterCreate /\ last.pre = {}
  /\ last.user.email # Lower(last.user.email)
  /\ Len(last.user.oauth_accounts) = NumAccounts
  /\ Get(last.id) = Expected(last.user)

\* C2, as claimed: while a created user's record is the last thing written,
\* get_by_email returns that user for every spelling of its email that differs
\* only in letter case; and get_by_email returns nothing for an email no
\* stored user has.
C2_CaseInsensitiveLookup ==
  /\ AfterCreate =>
       \A e \in Emails :
         Lower(e) = Lower(last.user.email) =>
           \A r \in GetByEmail(e) : r # NoUser /\ r.id = last.id
  /\ \A e \in Emails : ~Stored(e) => GetByEmail(e) = {NoUser}

\* C3, as claimed, for a record of another user that search already sees: no
\* create(V) returns normally while the store holds such a record whose email
\* equals V.email, letter case ignored.
C3_DuplicateEmailRejected ==
  AfterCreate => ~last.dup

\* C4, as claimed: after a completed update(U) carrying the entry list S,
\* get(U.id) returns exactly the entries of S.
C4_UpdateReplacesEntries ==
  AfterUpdate /\ last.user.has_oauth_accounts /\ ~last.conflict =>
    Get(last.id).oauth_accounts = EntrySet(last.user)

\* C5: after delete(U), get(U.id) is empty and the oauth_account index is as
\* it was: every linked-login document that referenced U.id is still stored,
\* still found by get_by_oauth_account's search and still names U.id, whose
\* lookup now finds nothing.
C5_DeleteLeavesLinkedLogins ==
  AfterDelete =>
    /\ Get(last.id) = NoUser
    /\ oauthDocs = last.linked
    /\ \A j \in SearchUserId(last.linked, last.id) :
         /\ j \in SearchOAuth(oauthSeen, last.linked[j].oauth_name,
                              last.linked[j].account_id)
         /\ oauthSeen[j].user_id = last.id
         /\ NoUser \in GetByOAuthAccount(last.linked[j].oauth_name,
                                         last.linked[j].account_id)

\* A user with a linked login was deleted: get finds nothing, the
\* linked-login document is still stored and searchable.
C5_Witness ==
  /\ AfterDelete
  /\ Get(last.id) = NoUser
  /\ SearchUserId(oauthSeen, last.id) # {}
  /\ SearchUserId(oauthDocs, last.id) # {}

\* C6, as claimed: a user created with no entries (none, or an empty list)
\* and not updated since is returned by get without the linked-login field.
C6_NoEntriesOfItsOwn ==
  AfterCreate /\ ~WritesOAuth(last.user) => ~Get(last.id).has_oauth_accounts

\* C6, amended: for an id under which no create or update ever wrote a
\* linked-login entry, get returns a record without the linked-login field.
C6_NeverLinkedIdHasNoField ==
  \A i \in UserIds \ everLinked :
    Get(i) # NoUser => ~Get(i).has_oauth_accounts

\* A user was created with an empty entry list under an id that never had
\* entries, while another id has some: get returns it without the field.
C6_Witness ==
  /\ AfterCreate
  /\ last.user.has_oauth_accounts /\ last.user.oauth_accounts = <<>>
  /\ last.id \notin everLinked /\ everLinked # {}
  /\ Get(last.id) # NoUser
  /\ ~Get(last.id).has_oauth_accounts

\* C7, as claimed: no two stored user records have the same email, letter case
\* ignored (one record per id holds by the store's keying).
C7_EmailUnique ==
  \A i, k \in UserIds :
    i # k /\ userDocs[i] # NoDoc /\ userDocs[k] # NoDoc =>
      Lower(userDocs[i].email) # Lower(userDocs[k].email)

\* C10: after a successful create(U') that carries no entries, get(U'.id)
\* returns U' with the linked-login documents that were stored with a
\* back-reference to the id attached, ids and accounts as stored.
C10_OrphansReattached ==
  AfterCreate /\ ~WritesOAuth(last.user) =>
    /\ Get(last.id) # NoUser
    /\ Get(last.id).email = Lower(last.user.email)
    /\ last.stored \subseteq LinkedIds(last.id)
    /\ LinkedIds(last.id) \subseteq last.pre
    /\ last.stored # {} => Get(last.id).has_oauth_accounts
    /\ \A e \in Get(last.id).oauth_accounts :
         e.id \in last.stored =>
           /\ e.user_id = last.id
           /\ e.oauth_name = oauthDocs[e.id].oauth_name
           /\ e.account_id = oauthDocs[e.id].account_id

\* A user with linked logins was deleted and a user without entries was then
\* created under its id: get returns the new user with the old entries.
C10_Witness ==
  /\ AfterCreate /\ ~WritesOAuth(last.user) /\ last.vacant /\ last.reused
  /\ last.stored # {}
  /\ Get(last.id).has_oauth_accounts
  /\ LinkedIds(last.id) = last.stored

\* C8: create's check and its write are separate steps, and the write does
\* not look again: a create that has passed get_by_email stores its user
\* document and goes on, whatever other calls have stored since the check.
C8_WriteDoesNotRecheck ==
  [][\A t \in Tasks :
       createIndex(t) =>
         /\ userDocs'[calls[t].user.id] = [email |-> Lower(calls[t].user.email)]
         /\ calls'[t].pc \in {"bulk", "done"}]_vars

\* Two interleaved creates for different ids and the same email, letter case
\* ignored, have both returned normally and both records are stored.
C8_Witness ==
  \E s, t \in Tasks :
    /\ At(s, "create", "done") /\ At(t, "create", "done")
    /\ calls[s].user.id # calls[t].user.id
    /\ calls[s].user.email # calls[t].user.email
    /\ Lower(calls[s].user.email) = Lower(calls[t].user.email)
    /\ userDocs[calls[s].user.id] = [email |-> Lower(calls[s].user.email)]
    /\ userDocs[calls[t].user.id] = userDocs[calls[s].user.id]

\* C9: update's delete_by_query is a step of its own, taken before the bulk
\* write and the user-document update: when it has run, no stored
\* linked-login document references U.id, the new entries are not written yet
\* and the user document is untouched.
C9_DeleteThenRewrite ==
  [][\A t \in Tasks, abort \in BOOLEAN :
       updateDeleteByQuery(t, abort) =>
         /\ SearchUserId(oauthDocs', calls[t].user.id) = {}
         /\ userDocs' = userDocs
         /\ ~abort /\ WritesOAuth(calls[t].user) => calls'[t].pc = "bulk"]_vars

\* An update that supplies entries for a user that had some is between its
\* two phases and get(U.id) returns U without any linked-login entry.
C9_Witness ==
  \E t \in Tasks :
    /\ At(t, "update", "bulk")
    /\ calls[t].had /\ WritesOAuth(calls[t].user)
    /\ SearchUserId(oauthDocs, calls[t].user.id) = {}
    /\ Get(calls[t].user.id) # NoUser
    /\ ~Get(calls[t].user.id).has_oauth_accounts
====
